---- MODULE Spec2Model ----
(***************************************************************************)
(* Rate Card Revenue & Margin Uplift Analyser (src/app.py).                *)
(*                                                                         *)
(* One run of the script is one pass: load the sheet, resolve the revenue  *)
(* columns, read the sidebar, filter, uplift, merge, summarise.  The state *)
(* is the script's module-level variables; pc is the position in the pass. *)
(***************************************************************************)
EXTENDS Integers, Sequences, FiniteSets, TLC

(***************************************************************************)
(* Bounds of the model.                                                    *)
(***************************************************************************)
MaxRows == 3
MaxMonthCols == 2

(***************************************************************************)
(* Sequence helpers.                                                       *)
(***************************************************************************)
Range(s) == {s[i] : i \in DOMAIN s}

SeqsUpTo(S, n) == UNION {[1..k -> S] : k \in 0..n}

InjSeqsUpTo(S, n) == {s \in SeqsUpTo(S, n) : \A i, j \in DOMAIN s : s[i] = s[j] => i = j}

(***************************************************************************)
(* float64 cells.  A finite value is the reduced fraction n/d, d > 0; the  *)
(* non-finite values are NaN, +inf and -inf, with IEEE-754 arithmetic on   *)
(* them (numpy/pandas never raise on a float division by zero).            *)
(***************************************************************************)
Abs(x) == IF x < 0 THEN -x ELSE x

RECURSIVE Gcd(_, _)
Gcd(a, b) == IF b = 0 THEN a ELSE Gcd(b, a % b)

Frac(n, d) ==
    LET s == IF d < 0 THEN -1 ELSE 1
        g == Gcd(Abs(n), Abs(d))
    IN  [k |-> "num", n |-> (s * n) \div g, d |-> (s * d) \div g]

Num(n)  == [k |-> "num", n |-> n, d |-> 1]
NaN     == [k |-> "nan", n |-> 0, d |-> 1]
PosInf  == [k |-> "inf", n |-> 1, d |-> 1]
NegInf  == [k |-> "inf", n |-> -1, d |-> 1]

IsNaN(x)  == x.k = "nan"
IsZero(x) == x.k = "num" /\ x.n = 0
Sgn(x)    == IF x.n > 0 THEN 1 ELSE IF x.n < 0 THEN -1 ELSE 0
InfOf(s)  == IF s < 0 THEN NegInf ELSE PosInf

FAdd(a, b) ==
    IF IsNaN(a) \/ IsNaN(b) THEN NaN
    ELSE IF a.k = "inf" /\ b.k = "inf" THEN (IF a.n = b.n THEN a ELSE NaN)
    ELSE IF a.k = "inf" THEN a
    ELSE IF b.k = "inf" THEN b
    ELSE Frac(a.n * b.d + b.n * a.d, a.d * b.d)

FNeg(a) == IF a.k = "nan" THEN NaN ELSE [a EXCEPT !.n = -a.n]

FSub(a, b) == FAdd(a, FNeg(b))

FMul(a, b) ==
    IF IsNaN(a) \/ IsNaN(b) THEN NaN
    ELSE IF a.k = "inf" \/ b.k = "inf"
         THEN (IF Sgn(a) * Sgn(b) = 0 THEN NaN ELSE InfOf(Sgn(a) * Sgn(b)))
    ELSE Frac(a.n * b.n, a.d * b.d)

FDiv(a, b) ==
    IF IsNaN(a) \/ IsNaN(b) THEN NaN
    ELSE IF a.k = "inf" /\ b.k = "inf" THEN NaN
    ELSE IF a.k = "inf" THEN InfOf(IF Sgn(b) < 0 THEN -Sgn(a) ELSE Sgn(a))
    ELSE IF b.k = "inf" THEN Num(0)
    ELSE IF b.n = 0 THEN (IF a.n = 0 THEN NaN ELSE InfOf(Sgn(a)))
    ELSE Frac(a.n * b.d, a.d * b.n)

RECURSIVE FSum(_)
FSum(s) == IF s = <<>> THEN Num(0) ELSE FAdd(Head(s), FSum(Tail(s)))

(***************************************************************************)
(* Column headers.  A header is the text base ++ sfx; pandas names the     *)
(* third column with the same header "<header>.2", which is how the sheet's*)
(* monthly revenue columns come to end in ".2".                            *)
(***************************************************************************)
Col(base, sfx) == [base |-> base, sfx |-> sfx]

BranchCol     == Col("Branch", "")
CapabilityCol == Col("Capability", "")
TeamCol       == Col("Department / Team", "")
JobCol        == Col("Job Title", "")
rate_col      == Col("Charge Rate Daily", "")
cost_col      == Col("Cost rate Daily", "")

DimCols == <<BranchCol, CapabilityCol, TeamCol, JobCol>>

\* The date-like headers a sheet is built from: three revenue headers that are
\* dates, two of them in the same calendar month, two revenue headers that are
\* no date, and the billable-days header of January, which is no revenue header.
MonthPool == {Col("2025-01-01 00:00:00", ".2"), Col("2025-02-01 00:00:00", ".2"),
              Col("2025-02-15 00:00:00", ".2"), Col("Notes", ".2"), Col("Forecast", ".2"),
              Col("2025-01-01 00:00:00", "")}

\* A missing cell of a text column.
Null == "<NA>"

NaT == [y |-> 0, m |-> 0, d |-> 0]

Stamp(y, m, d) == [y |-> y, m |-> m, d |-> d]

\* pd.to_datetime on the header texts of the model; any other text raises.
to_datetime(base) ==
    CASE base = "2025-01-01 00:00:00" -> Stamp(2025, 1, 1)
      [] base = "2025-02-01 00:00:00" -> Stamp(2025, 2, 1)
      [] base = "2025-02-15 00:00:00" -> Stamp(2025, 2, 15)
      [] OTHER -> NaT

\* str.contains("total", case=False, na=False) on the job titles of the model.
ContainsTotal(s) == s \in {"Grand Total", "total"}

(***************************************************************************)
(* Frames.  A frame is a sequence of rows; a row carries its index label   *)
(* and one cell per column.  rid is the identity of the sheet row the row  *)
(* was copied from: it is not a pandas field, and no operation reads it.   *)
(***************************************************************************)
IndexOf(frame) == {frame[i].idx : i \in DOMAIN frame}

Has(columns, c) == c \in Range(columns)

get_loc(columns, c) == CHOOSE i \in DOMAIN columns : columns[i] = c

VARIABLES
    pc,                 \* position of the script in the pass
    columns,            \* df.columns, in the sheet's physical order
    sheet,              \* the rows of rate_card_data.xlsx
    df,                 \* the loaded frame
    revenue_cols,       \* the revenue columns, sorted
    selected,           \* the four multiselects: dimension column -> set of values
    uplift_type,        \* "% Increase" or "$ Increase"
    uplift_value,       \* the number input
    picked,             \* position of the option the user chose in the selectbox
    effective_month,    \* the column mapped back from the chosen label
    df_base, df_affected, df_unaffected,
    rev_cols_from_effective,
    df_uplifted,
    summary,            \* orig_total, uplift_total, incremental, avg_margin, metric text
    error               \* the st.error reported, "" when none

vars == <<pc, columns, sheet, df, revenue_cols, selected, uplift_type, uplift_value,
          picked, effective_month, df_base, df_affected, df_unaffected,
          rev_cols_from_effective, df_uplifted, summary, error>>

NoCol == Col("", "")
NoSummary == [shown |-> FALSE, orig_total |-> Num(0), uplift_total |-> Num(0),
              incremental |-> Num(0), avg_margin |-> NaN, margin_metric |-> "",
              monthly |-> <<>>]

(***************************************************************************)
(* The sheets the model reads.  Two families: sheets whose rows vary over  *)
(* RowKinds under the usual headers, and a fixed pair of rows under        *)
(* headers that vary in which columns exist and in the physical order of   *)
(* the revenue columns.                                                    *)
(***************************************************************************)
Jan == Col("2025-01-01 00:00:00", ".2")
Feb == Col("2025-02-01 00:00:00", ".2")

StdColumns == <<BranchCol, JobCol, rate_col, cost_col, Jan, Feb>>

Prefixes == {<<BranchCol, TeamCol, JobCol, rate_col, cost_col>>,
             <<CapabilityCol, JobCol, rate_col, cost_col>>,
             <<BranchCol, JobCol, cost_col>>,
             <<BranchCol, JobCol, rate_col>>,
             <<BranchCol>>}

Kind(branch, job, rate, cost) == [branch |-> branch, job |-> job, rate |-> rate, cost |-> cost]

RowKinds == {Kind("North", "Developer", 100, 60), Kind("North", "Analyst", 0, 60),
             Kind("South", "Developer", 0, 0), Kind(Null, "Developer", 100, 60),
             Kind("North", "Grand Total", 100, 60)}

StdKinds == <<Kind("North", "Developer", 100, 60), Kind("South", "Developer", 0, 60)>>

\* The cell of sheet row rid under header c.
CellOf(cols, rid, kind, c) ==
    CASE c = BranchCol     -> kind.branch
      [] c = CapabilityCol -> "Eng"
      [] c = TeamCol       -> IF rid = 1 THEN "T1" ELSE Null
      [] c = JobCol        -> kind.job
      [] c = rate_col      -> Num(kind.rate)
      [] c = cost_col      -> Num(kind.cost)
      [] OTHER             -> Num(1000 * rid + 10 * get_loc(cols, c))

SheetOf(cols, kinds) ==
    [i \in DOMAIN kinds |->
        [rid |-> i, cells |-> [c \in Range(cols) |-> CellOf(cols, i, kinds[i], c)]]]

Init ==
    /\ pc = "load"
    /\ \/ /\ columns = StdColumns
          /\ \E kinds \in SeqsUpTo(RowKinds, MaxRows) : sheet = SheetOf(columns, kinds)
       \/ /\ \E prefix \in Prefixes, months \in InjSeqsUpTo(MonthPool, MaxMonthCols) :
                columns = prefix \o months
          /\ sheet = SheetOf(columns, StdKinds)
    /\ df = <<>>
    /\ revenue_cols = <<>>
    /\ selected = [c \in Range(DimCols) |-> {}]
    /\ uplift_type = ""
    /\ uplift_value = Num(0)
    /\ picked = 0
    /\ effective_month = NoCol
    /\ df_base = <<>>
    /\ df_affected = <<>>
    /\ df_unaffected = <<>>
    /\ rev_cols_from_effective = <<>>
    /\ df_uplifted = <<>>
    /\ summary = NoSummary
    /\ error = ""

(***************************************************************************)
(* load_data: read the sheet; drop the rows whose Job Title contains       *)
(* "total".  The rows that remain keep their index labels.                 *)
(***************************************************************************)
IsTotalRow(row) == ContainsTotal(row.cells[JobCol])

load_data(cols, rows) ==
    LET frame == [i \in DOMAIN rows |-> [idx |-> i - 1, rid |-> rows[i].rid, cells |-> rows[i].cells]]
        Kept(row) == ~IsTotalRow(row)
    IN  IF Has(cols, JobCol) THEN SelectSeq(frame, Kept) ELSE frame

LoadData ==
    /\ pc = "load"
    /\ df' = load_data(columns, sheet)
    /\ pc' = "resolve"
    /\ UNCHANGED <<columns, sheet, revenue_cols, selected, uplift_type, uplift_value,
                   picked, effective_month, df_base, df_affected, df_unaffected,
                   rev_cols_from_effective, df_uplifted, summary, error>>

\* pd.read_excel raises (the file is missing or unreadable): report and stop.
LoadFails ==
    /\ pc = "load"
    /\ error' = "Unable to load 'rate_card_data.xlsx'"
    /\ pc' = "stopped"
    /\ UNCHANGED <<columns, sheet, df, revenue_cols, selected, uplift_type, uplift_value,
                   picked, effective_month, df_base, df_affected, df_unaffected,
                   rev_cols_from_effective, df_uplifted, summary>>

(***************************************************************************)
(* The revenue columns: the headers ending in ".2", sorted by the date     *)
(* their text parses to; a header that is no date sorts last.              *)
(***************************************************************************)
endswith2(c) == c.sfx = ".2"

\* col.rsplit(".2", 1)[0], then pd.to_datetime; NaT when the parse raises.
_col_to_dt(c) == to_datetime(c.base)

notna(t) == t # NaT

\* Chronological order of two timestamps.
Before(a, b) ==
    \/ a.y < b.y
    \/ a.y = b.y /\ a.m < b.m
    \/ a.y = b.y /\ a.m = b.m /\ a.d < b.d

\* s is in the order of Series.sort_values: ascending, NaT last.
SortedByDate(s) ==
    \A i, j \in DOMAIN s : i < j =>
        LET a == _col_to_dt(s[i])
            b == _col_to_dt(s[j])
        IN  IF notna(a) /\ notna(b) THEN ~Before(b, a) ELSE ~notna(b)

\* The orders sort_values may return: the sort is not stable, so the headers
\* with the same key (several NaT) come in any order.
sort_values(cols) ==
    {s \in [DOMAIN cols -> Range(cols)] : Range(s) = Range(cols) /\ SortedByDate(s)}

ResolveColumns ==
    /\ pc = "resolve"
    /\ LET found == SelectSeq(columns, endswith2)
       IN  IF found = <<>>
           THEN /\ error' = "No revenue columns detected"
                /\ pc' = "stopped"
                /\ UNCHANGED revenue_cols
           ELSE /\ revenue_cols' \in sort_values(found)
                /\ pc' = "sidebar"
                /\ UNCHANGED error
    /\ UNCHANGED <<columns, sheet, df, selected, uplift_type, uplift_value,
                   picked, effective_month, df_base, df_affected, df_unaffected,
                   rev_cols_from_effective, df_uplifted, summary>>

(***************************************************************************)
(* The sidebar: one multiselect per dimension over the values seen in the  *)
(* column (all of them selected by default), the uplift, and the effective *)
(* month chosen by its label.                                              *)
(***************************************************************************)
safe_unique(frame, cols, c) ==
    IF Has(cols, c)
    THEN {frame[i].cells[c] : i \in DOMAIN frame} \ {Null}
    ELSE {}

\* strftime("%b %Y") keeps the month and the year of a timestamp; the label
\* of a header that is no date is the header itself.
Label(y, m, c) == [y |-> y, m |-> m, col |-> c]

strftime(t) == Label(t.y, t.m, NoCol)

month_label_map(c) == IF notna(_col_to_dt(c)) THEN strftime(_col_to_dt(c)) ELSE Label(0, 0, c)

\* {v: k for k, v in month_label_map.items()}: of the columns with one label,
\* the last in revenue_cols is the one the dict keeps.
reverse_month_map(rcols, label) ==
    LET at == {i \in DOMAIN rcols : month_label_map(rcols[i]) = label}
        last == CHOOSE i \in at : \A j \in at : j <= i
    IN  rcols[last]

\* The values the two number inputs are given.
PercentInputs == {Num(0), Num(10)}
DollarInputs == {Num(0), Num(50)}

Sidebar ==
    /\ pc = "sidebar"
    /\ \E b \in SUBSET safe_unique(df, columns, BranchCol),
          c \in SUBSET safe_unique(df, columns, CapabilityCol),
          t \in SUBSET safe_unique(df, columns, TeamCol),
          j \in SUBSET safe_unique(df, columns, JobCol) :
            selected' = (BranchCol :> b) @@ (CapabilityCol :> c) @@ (TeamCol :> t) @@ (JobCol :> j)
    /\ \/ uplift_type' = "% Increase" /\ uplift_value' \in PercentInputs
       \/ uplift_type' = "$ Increase" /\ uplift_value' \in DollarInputs
    /\ picked' \in DOMAIN revenue_cols
    /\ effective_month' = reverse_month_map(revenue_cols, month_label_map(revenue_cols[picked']))
    /\ pc' = "filter"
    /\ UNCHANGED <<columns, sheet, df, revenue_cols, df_base, df_affected, df_unaffected,
                   rev_cols_from_effective, df_uplifted, summary, error>>

(***************************************************************************)
(* Filtering: the mask is the conjunction, over the dimensions that have   *)
(* values, of "the row's value is selected".                               *)
(***************************************************************************)
isin(row, c, values) == row.cells[c] \in values

mask(frame, cols, sel, row) ==
    \A c \in Range(DimCols) :
        safe_unique(frame, cols, c) # {} => isin(row, c, sel[c])

Affected(frame, cols, sel) ==
    LET Keep(row) == mask(frame, cols, sel, row)
    IN  SelectSeq(frame, Keep)

\* The unaffected rows taken without the index test: every row of the frame.
UnaffectedAllBug(frame, affected) == frame

\* df.loc[~df.index.isin(df_affected.index)]
Unaffected(frame, affected) ==
    LET Keep(row) == row.idx \notin IndexOf(affected)
    IN  SelectSeq(frame, Keep)

FilterRows ==
    /\ pc = "filter"
    /\ df_base' = df
    /\ df_affected' = Affected(df, columns, selected)
    /\ df_unaffected' = Unaffected(df, df_affected')
    /\ pc' = "uplift"
    /\ UNCHANGED <<columns, sheet, df, revenue_cols, selected, uplift_type, uplift_value,
                   picked, effective_month, rev_cols_from_effective, df_uplifted,
                   summary, error>>

(***************************************************************************)
(* The uplift of the affected rows, in the revenue columns at or after the *)
(* effective month's position in df.columns.                               *)
(***************************************************************************)
FromEffective(cols, rcols, eff) ==
    LET start_idx == get_loc(cols, eff)
        Keep(c) == get_loc(cols, c) >= start_idx
    IN  SelectSeq(rcols, Keep)

\* .replace(0, np.nan)
replace0(x) == IF IsZero(x) THEN NaN ELSE x

\* .fillna(0.0)
fillna0(x) == IF IsNaN(x) THEN Num(0) ELSE x

\* The number each in-scope revenue cell of the row is multiplied by.
Multiplier(utype, uval, row) ==
    IF utype = "% Increase"
    THEN FAdd(Num(1), FDiv(uval, Num(100)))
    ELSE LET safe_rate == replace0(row.cells[rate_col])
             ratio == fillna0(FDiv(uval, safe_rate))
         IN  FAdd(Num(1), ratio)

UpliftRow(utype, uval, scope, row) ==
    [row EXCEPT !.cells = [c \in DOMAIN row.cells |->
        IF c \in Range(scope) THEN FMul(row.cells[c], Multiplier(utype, uval, row))
        ELSE row.cells[c]]]

UpliftFrame(utype, uval, scope, frame) ==
    [i \in DOMAIN frame |-> UpliftRow(utype, uval, scope, frame[i])]

\* The assignments as they would act were df_affected to share its data with
\* the frame it was taken from: the rows of the baseline change with it.
AssignSharedBug(frames, new) ==
    [affected |-> new,
     base |-> [i \in DOMAIN frames.base |->
                  IF \E j \in DOMAIN new : new[j].idx = frames.base[i].idx
                  THEN new[CHOOSE j \in DOMAIN new : new[j].idx = frames.base[i].idx]
                  ELSE frames.base[i]]]

\* The frames after the assignments df_affected[col] = ...: df_affected is a
\* copy, so the new columns are written to it alone.
AssignColumns(frames, new) == [frames EXCEPT !.affected = new]

\* The uplift step without the st.stop() after the error is reported.
ApplyUpliftStopBug ==
    /\ pc = "uplift"
    /\ rev_cols_from_effective' = FromEffective(columns, revenue_cols, effective_month)
    /\ IF uplift_type = "$ Increase" /\ ~Has(columns, rate_col)
       THEN /\ error' = "'Charge Rate Daily' column not found"
            /\ pc' = "merge"
            /\ UNCHANGED <<df_base, df_affected>>
       ELSE /\ LET after == AssignColumns([base |-> df_base, affected |-> df_affected],
                               UpliftFrame(uplift_type, uplift_value,
                                           rev_cols_from_effective', df_affected))
               IN  df_base' = after.base /\ df_affected' = after.affected
            /\ pc' = "merge"
            /\ UNCHANGED error
    /\ UNCHANGED <<columns, sheet, df, revenue_cols, selected, uplift_type, uplift_value,
                   picked, effective_month, df_unaffected, df_uplifted, summary>>

ApplyUplift ==
    /\ pc = "uplift"
    /\ rev_cols_from_effective' = FromEffective(columns, revenue_cols, effective_month)
    /\ IF uplift_type = "$ Increase" /\ ~Has(columns, rate_col)
       THEN /\ error' = "'Charge Rate Daily' column not found"
            /\ pc' = "stopped"
            /\ UNCHANGED <<df_base, df_affected>>
       ELSE /\ LET after == AssignColumns([base |-> df_base, affected |-> df_affected],
                               UpliftFrame(uplift_type, uplift_value,
                                           rev_cols_from_effective', df_affected))
               IN  df_base' = after.base /\ df_affected' = after.affected
            /\ pc' = "merge"
            /\ UNCHANGED error
    /\ UNCHANGED <<columns, sheet, df, revenue_cols, selected, uplift_type, uplift_value,
                   picked, effective_month, df_unaffected, df_uplifted, summary>>

(***************************************************************************)
(* pd.concat([df_affected, df_unaffected], ignore_index=True): the rows of *)
(* both frames, affected first, under a fresh index 0..n-1.                *)
(***************************************************************************)
\* A merge that keeps the affected rows only.
concatDropBug(a, b) == [i \in DOMAIN a |-> [a[i] EXCEPT !.idx = i - 1]]

concat(a, b) == [i \in DOMAIN (a \o b) |-> [(a \o b)[i] EXCEPT !.idx = i - 1]]

Merge ==
    /\ pc = "merge"
    /\ df_uplifted' = concat(df_affected, df_unaffected)
    /\ pc' = "summaries"
    /\ UNCHANGED <<columns, sheet, df, revenue_cols, selected, uplift_type, uplift_value,
                   picked, effective_month, df_base, df_affected, df_unaffected,
                   rev_cols_from_effective, summary, error>>

(***************************************************************************)
(* Summaries and output: the totals over the in-scope revenue columns, the *)
(* average new margin of the affected rows, and the monthly comparison.    *)
(***************************************************************************)
ColumnSum(frame, c) == FSum([i \in DOMAIN frame |-> frame[i].cells[c]])

\* frame[scope].sum(numeric_only=True).sum()
Total(frame, scope) == FSum([i \in DOMAIN scope |-> ColumnSum(frame, scope[i])])

new_rate(utype, uval, row) ==
    IF utype = "% Increase"
    THEN FMul(row.cells[rate_col], FAdd(Num(1), FDiv(uval, Num(100))))
    ELSE FAdd(row.cells[rate_col], uval)

\* ((new_rate - cost) / new_rate) * 100.0 under np.errstate(divide='ignore',
\* invalid='ignore'): a zero new_rate gives NaN or an infinity, no exception.
new_margin_pct(utype, uval, row) ==
    FMul(FDiv(FSub(new_rate(utype, uval, row), row.cells[cost_col]),
              new_rate(utype, uval, row)),
         Num(100))

\* np.nanmean: the mean of the entries that are not NaN; NaN when none is.
nanmean(s) ==
    LET Kept(x) == ~IsNaN(x)
        kept == SelectSeq(s, Kept)
    IN  IF kept = <<>> THEN NaN ELSE FDiv(FSum(kept), Num(Len(kept)))

avg_margin(cols, utype, uval, affected) ==
    IF Has(cols, cost_col) /\ Has(cols, rate_col)
    THEN nanmean([i \in DOMAIN affected |-> new_margin_pct(utype, uval, affected[i])])
    ELSE NaN

\* The text of the third metric: "N/A" for NaN, else the number followed by
\* "%"; of the number's text only whether it is finite is kept.
MarginMetric(avg) == IF IsNaN(avg) THEN "N/A" ELSE IF avg.k = "inf" THEN "inf%" ELSE "number%"

Summaries ==
    /\ pc = "summaries"
    /\ LET orig == Total(df_base, rev_cols_from_effective)
           upl  == Total(df_uplifted, rev_cols_from_effective)
           avg  == avg_margin(columns, uplift_type, uplift_value, df_affected)
       IN  summary' =
             [shown |-> TRUE, orig_total |-> orig, uplift_total |-> upl,
              incremental |-> FSub(upl, orig), avg_margin |-> avg,
              margin_metric |-> MarginMetric(avg),
              monthly |-> [i \in DOMAIN rev_cols_from_effective |->
                 LET c == rev_cols_from_effective[i]
                 IN  [Month |-> month_label_map(c),
                      Original |-> ColumnSum(df_base, c),
                      Uplifted |-> ColumnSum(df_uplifted, c),
                      Delta |-> FSub(ColumnSum(df_uplifted, c), ColumnSum(df_base, c))]]]
    /\ pc' = "done"
    /\ UNCHANGED <<columns, sheet, df, revenue_cols, selected, uplift_type, uplift_value,
                   picked, effective_month, df_base, df_affected, df_unaffected,
                   rev_cols_from_effective, df_uplifted, error>>

Next ==
    \/ LoadData
    \/ LoadFails
    \/ ResolveColumns
    \/ Sidebar
    \/ FilterRows
    \/ ApplyUplift
    \/ Merge
    \/ Summaries

Spec == Init /\ [][Next]_vars

(***************************************************************************)
(* Vocabulary of the properties.                                           *)
(***************************************************************************)
Filtered == pc \in {"uplift", "merge", "summaries", "done"}
Uplifted == pc \in {"merge", "summaries", "done"}
Merged   == pc \in {"summaries", "done"}

\* How many rows of the frame carry the index label / come from the sheet row.
CountIdx(frame, i) == Cardinality({j \in DOMAIN frame : frame[j].idx = i})
CountRid(frame, r) == Cardinality({j \in DOMAIN frame : frame[j].rid = r})
Rids(frame) == {frame[i].rid : i \in DOMAIN frame}

\* The revenue of a row as the sheet has it.
Original(row, c) == sheet[row.rid].cells[c]

\* Position of the effective month in the chronological month sequence.
EffectiveIndex == CHOOSE i \in DOMAIN revenue_cols : revenue_cols[i] = effective_month

\* The months at or after the effective month in the chronological sequence.
InScope == {revenue_cols[i] : i \in {j \in DOMAIN revenue_cols : j >= EffectiveIndex}}
OutOfScope == {revenue_cols[i] : i \in {j \in DOMAIN revenue_cols : j < EffectiveIndex}}

PercentFactor == FAdd(Num(1), FDiv(uplift_value, Num(100)))

\* C1: after filtering, |Affected| + |Unaffected| = |Dataset| and every index
\* label of the dataset is the label of exactly one row of the two partitions.
PartitionComplete ==
    Filtered =>
        /\ Len(df_affected) + Len(df_unaffected) = Len(df)
        /\ IndexOf(df_affected) \cup IndexOf(df_unaffected) = IndexOf(df)
        /\ \A i \in IndexOf(df) : CountIdx(df_affected, i) + CountIdx(df_unaffected, i) = 1

\* Both partitions are non-empty and a total row was dropped on load, so the
\* index labels are not 0..n-1.
PartitionWitness ==
    /\ Filtered
    /\ df_affected # <<>> /\ df_unaffected # <<>>
    /\ \E i \in IndexOf(df) : i >= Len(df)

\* C2: a row is affected iff its value is in the selection of every dimension
\* whose selection is non-empty; an empty selection constrains nothing.
AffectedIffSelected ==
    Filtered =>
        \A i \in DOMAIN df :
            (df[i].idx \in IndexOf(df_affected)) <=>
                (\A c \in Range(DimCols) : selected[c] # {} => df[i].cells[c] \in selected[c])

\* C3: every month before the effective month in the chronological sequence
\* has the same revenue in the uplifted dataset as in the original, in every row.
OutOfScopeUnchanged ==
    Merged =>
        \A r \in DOMAIN df_uplifted : \A c \in OutOfScope :
            df_uplifted[r].cells[c] = Original(df_uplifted[r], c)

\* C4: in percentage mode every affected row has, in every month at or after
\* the effective month, the original revenue times (1 + pct/100).
PercentageScalesInScope ==
    (Uplifted /\ uplift_type = "% Increase") =>
        \A r \in DOMAIN df_affected : \A c \in InScope :
            df_affected[r].cells[c] = FMul(Original(df_affected[r], c), PercentFactor)

\* C5: after the uplift the baseline frame holds, for every row and revenue
\* column, the revenue the sheet holds.
BaselineImmutable ==
    Uplifted =>
        /\ Len(df_base) = Len(df)
        /\ \A i \in DOMAIN df_base : \A c \in Range(revenue_cols) :
               df_base[i].cells[c] = Original(df_base[i], c)

\* An uplift changed a revenue cell of an affected row.
BaselineWitness ==
    /\ pc = "done"
    /\ \E r \in DOMAIN df_affected : \E c \in Range(revenue_cols) :
           df_affected[r].cells[c] # Original(df_affected[r], c)

\* C6: in fixed-per-day mode an affected row with charge rate 0 keeps its
\* revenue in every month, and any other affected row has, in every month at or
\* after the effective month, the original revenue times (1 + value/charge rate).
FixedModeRatio ==
    (Uplifted /\ uplift_type = "$ Increase") =>
        \A r \in DOMAIN df_affected :
            LET row == df_affected[r]
                rate == row.cells[rate_col]
            IN  IF IsZero(rate)
                THEN \A c \in Range(revenue_cols) : row.cells[c] = Original(row, c)
                ELSE \A c \in InScope :
                        row.cells[c] =
                            FMul(Original(row, c), FAdd(Num(1), FDiv(uplift_value, rate)))

\* C7: the average margin is the mean of (new_rate - cost_rate)/new_rate*100
\* over the affected rows whose new rate is not 0, and "N/A" when there is none.
MarginSkipsZeroRate ==
    (pc = "done" /\ Has(columns, rate_col) /\ Has(columns, cost_col)) =>
        LET Defined(row) == ~IsZero(new_rate(uplift_type, uplift_value, row))
            rows == SelectSeq(df_affected, Defined)
            margins == [i \in DOMAIN rows |-> new_margin_pct(uplift_type, uplift_value, rows[i])]
        IN  IF rows = <<>>
            THEN summary.margin_metric = "N/A"
            ELSE /\ summary.avg_margin = FDiv(FSum(margins), Num(Len(rows)))
                 /\ summary.margin_metric # "N/A"

\* C8: the merged dataset has as many rows as the loaded dataset and holds
\* each of its rows exactly once.
CardinalityPreserved ==
    Merged =>
        /\ Len(df_uplifted) = Len(df)
        /\ \A i \in DOMAIN df : CountRid(df_uplifted, df[i].rid) = 1
        /\ Rids(df_uplifted) = Rids(df)

\* A merge of a non-empty affected partition with a non-empty unaffected one.
CardinalityWitness ==
    /\ Merged
    /\ df_affected # <<>> /\ df_unaffected # <<>>
    /\ Len(df_uplifted) = Len(df_affected) + Len(df_unaffected)

ConfigErrors == {"No revenue columns detected", "'Charge Rate Daily' column not found"}

\* C9: once a configuration error is reported the pass is stopped: no merged
\* dataset, no totals and no margin exist in that run.
ConfigErrorHalts ==
    error \in ConfigErrors =>
        /\ pc = "stopped"
        /\ df_uplifted = <<>>
        /\ summary = NoSummary

\* Fixed-per-day mode without the charge-rate column, on a non-empty selection.
ConfigErrorWitness ==
    /\ error = "'Charge Rate Daily' column not found"
    /\ pc = "stopped"
    /\ df_affected # <<>>

\* C10: the effective month is the column whose option the user chose: the
\* label of a revenue column maps back to that column.
EffectiveMonthIsPicked ==
    picked # 0 =>
        /\ effective_month = revenue_cols[picked]
        /\ \A c \in Range(revenue_cols) :
               reverse_month_map(revenue_cols, month_label_map(c)) = c

====
